---- MODULE Spec2Model ----
(***************************************************************************)
(* Conversation orchestration and supervision workflow of caddy-chatbot:   *)
(* caddy_core/components.py (message admission, evaluation modules, answer *)
(* generation with retries, persistence) and                                *)
(* integrations/google_chat/structures.py (supervisor approval and          *)
(* rejection, call completion, post-call survey).                           *)
(*                                                                          *)
(* The four DynamoDB tables are functions from primary key to item; an item *)
(* is a function from attribute names to values, and the empty function is  *)
(* a missing item.  put_item replaces the item, update_item merges the SET  *)
(* attributes into the item and creates the item when it is missing.        *)
(* chat_client is the collaborator handle_message and send_to_llm are given;*)
(* its calls are modelled by the content they write to the adviser (end     *)
(* user) space and to the supervisor space.  Timestamps are left out of the *)
(* items: callStart carries the id of the message that opened the call.     *)
(***************************************************************************)
EXTENDS Integers, Sequences, FiniteSets, TLC

\* ---------------------------------------------------------------- bounds
NumThreads == 2
MaxMessages == 3
MaxSurveyCards == 1
MaxChunks == 4
MaxClicks == 3

\* ------------------------------------------------------ program constants
MaxAttempts == 4
FlushThreshold == 75

Users == {"adviser1"}
Approvers == {"sup1"}
Feedback == {"use the benefits calculator"}
Threads == 1..NumThreads
MsgIds == 1..MaxMessages
Questions == <<"q1">>
SurveyValues == {"yes"}
\* A post call survey of several questions, each with two answer options.
PostCallSurvey == <<"q1", "q2", "q3">>
PostCallValues == {"yes", "no"}

VARIABLES
    users_table,        \* userEmail -> item
    evaluation_table,   \* threadId -> item
    message_table,      \* messageId -> item
    responses_table,    \* threadId -> item
    adviser_space,      \* messageId -> content now shown in the adviser's message
    thread_cards,       \* threads that carry a "Mark call complete" card
    survey_cards,       \* sequence of survey cards posted to adviser threads
    supervisor_space,   \* messageId -> the request message and the response message
    next_id,            \* id the chat platform gives the next adviser message
    last,               \* what the last handler did (its calls, in order)
    stream_run,                \* one run of send_to_llm, fragment by fragment
    admits,             \* worker -> its position in check_existing_call
    survey_clicks       \* the survey answer events, each with the card it carries

vars == <<users_table, evaluation_table, message_table, responses_table,
          adviser_space, thread_cards, survey_cards, supervisor_space,
          next_id, last, stream_run, admits, survey_clicks>>

\* --------------------------------------------------------------- items
NoItem == [x \in {} |-> x]
Present(item) == DOMAIN item # {}
Has(item, attr) == attr \in DOMAIN item

put_item(table, key, item) == [table EXCEPT ![key] = item]
update_item(table, keyName, key, sets) ==
    [table EXCEPT ![key] = sets @@ @ @@ (keyName :> key)]

\* ------------------------------------------------------------- contents
Note(kind) == [kind |-> kind]
PROCESSING_MESSAGE == Note("PROCESSING_MESSAGE")
COMPOSING_MESSAGE == Note("COMPOSING_MESSAGE")
COMPOSING_MESSAGE_RETRY == Note("COMPOSING_MESSAGE_RETRY")
SUPERVISOR_REVIEWING_RESPONSE == Note("SUPERVISOR_REVIEWING_RESPONSE")
AWAITING_SUPERVISOR_APPROVAL == Note("AWAITING_SUPERVISOR_APPROVAL")
REQUEST_FAILURE == Note("REQUEST_FAILURE")
SURVEY_ALREADY_COMPLETED == Note("SURVEY_ALREADY_COMPLETED")
NoContent == Note("none")

\* ------------------------------------------------- evaluation module policy
\* Values execute_optional_modules may return.  moduleOutputs is the decoded
\* JSON object, one entry per module, in order.
Module(split) == [module |-> "rct", module_arguments |-> [split |-> split]]
DictOutput(flag) == [type |-> "dict", end_interaction |-> flag]
TextOutput == [type |-> "str", end_interaction |-> "absent"]

ModuleValues ==
    { [modulesUsed |-> <<Module(5)>>,
       moduleOutputs |-> <<TextOutput, DictOutput("null"), DictOutput("absent")>>,
       continueConversation |-> TRUE, controlGroupMessage |-> "none"],
      [modulesUsed |-> <<Module(5)>>, moduleOutputs |-> <<DictOutput("true")>>,
       continueConversation |-> FALSE, controlGroupMessage |-> "control group"],
      [modulesUsed |-> <<Module(7)>>,
       moduleOutputs |-> <<TextOutput, DictOutput("false"), DictOutput("true")>>,
       continueConversation |-> TRUE, controlGroupMessage |-> "none"] }

\* How the answer generator behaves for one message: the number of attempts
\* in which the stream raises, and whether it raises after its first answer
\* fragment (TRUE) or before it (FALSE).
GeneratorRuns ==
    { [failures |-> 0, partial |-> FALSE],
      [failures |-> 1, partial |-> FALSE],
      [failures |-> MaxAttempts, partial |-> TRUE] }

\* --------------------------------------------------------------- cards
\* create_card as send_to_llm calls it: one section holding the answer text;
\* RESPONSE_STREAMING is a widget appended to that section while streaming.
create_card(answer, streaming) ==
    [kind |-> "aiResponseCard",
     sections |-> <<[type |-> "answer", text |-> answer, streaming |-> streaming]>>]

\* The approve / reject buttons with the parameters the decision event carries.
ApprovalButtons(card, event) ==
    [type |-> "buttons", aiResponse |-> card, responseId |-> event.response_id,
     messageId |-> event.message_id, threadId |-> event.thread_id,
     userEmail |-> event.user]

create_supervision_card(card_for_approval, event) ==
    [card_for_approval EXCEPT
        !.sections = Append(@, ApprovalButtons(card_for_approval, event))]

approval_json_widget(approver) == [type |-> "approved", approver |-> approver]
rejection_json_widget(approver, supervisor_message) ==
    [type |-> "rejected", approver |-> approver,
     supervisor_message |-> supervisor_message]

create_approved_card(card, approver) ==
    [card EXCEPT !.sections = Append(@, approval_json_widget(approver))]

create_updated_supervision_card(supervision_card, approver, approved, supervisor_message) ==
    LET approval_section ==
            IF approved THEN approval_json_widget(approver)
            ELSE rejection_json_widget(approver, supervisor_message)
        popped == SubSeq(supervision_card.sections, 1, Len(supervision_card.sections) - 1)
    IN [supervision_card EXCEPT !.sections = Append(popped, approval_section)]

supervisor_rejection(approver, supervisor_message) ==
    [kind |-> "supervisorRejection",
     sections |-> <<rejection_json_widget(approver, supervisor_message)>>]

control_group_selection(control_group_message) ==
    [kind |-> "controlGroupCard", text |-> control_group_message]

\* Whether a content written to the adviser space carries AI answer text.
ShowsAnswer(content) ==
    /\ Has(content, "sections")
    /\ \E i \in 1..Len(content.sections) : content.sections[i].type = "answer"

\* ---------------------------------------------------- evaluation gate
ConfigAttrs == {"modulesUsed", "moduleOutputs", "continueConversation",
                "controlGroupMessage"}

\* modulesUsed[0] with its split argument turned into a string (the dict is
\* changed in place, so the caller's module_values sees the change too).
user_arguments(module_values) ==
    [module_values.modulesUsed[1] EXCEPT !.module_arguments.split = ToString(@)]

\* The item store_evaluation_module puts in the evaluation table.
EvaluationItem(thread_id, module_values, call_start_time) ==
    [threadId |-> thread_id,
     callStart |-> call_start_time,
     modulesUsed |-> user_arguments(module_values),
     moduleOutputs |-> module_values.moduleOutputs,
     continueConversation |-> module_values.continueConversation,
     controlGroupMessage |-> module_values.controlGroupMessage,
     callComplete |-> FALSE]

\* The attributes store_evaluation_module sets on the user's item.
\* A session update that records every call as a continuing conversation.
UserCallAttrsContinuing(thread_id, module_values, call_start_time) ==
    [activeCall |-> TRUE,
     callStart |-> call_start_time,
     activeThreadId |-> thread_id,
     modulesUsed |-> user_arguments(module_values),
     moduleOutputs |-> module_values.moduleOutputs,
     continueConversation |-> TRUE,
     controlGroupMessage |-> module_values.controlGroupMessage]

UserCallAttrs(thread_id, module_values, call_start_time) ==
    [activeCall |-> TRUE,
     callStart |-> call_start_time,
     activeThreadId |-> thread_id,
     modulesUsed |-> user_arguments(module_values),
     moduleOutputs |-> module_values.moduleOutputs,
     continueConversation |-> module_values.continueConversation,
     controlGroupMessage |-> module_values.controlGroupMessage]

store_evaluation_module(users, evaluation, user, thread_id, module_values, call_start_time) ==
    [evaluation |->
        put_item(evaluation, thread_id,
                 EvaluationItem(thread_id, module_values, call_start_time)),
     users |->
        update_item(users, "userEmail", user,
                    UserCallAttrs(thread_id, module_values, call_start_time))]

\* The four values check_existing_call copies out of an item.
ModuleValuesOf(item) ==
    [modulesUsed |-> item.modulesUsed,
     moduleOutputs |-> item.moduleOutputs,
     continueConversation |-> item.continueConversation,
     controlGroupMessage |-> item.controlGroupMessage]

GateResult(raised, module_values, survey_complete, invoked, users, evaluation) ==
    [raised |-> raised, module_values |-> module_values,
     survey_complete |-> survey_complete, policy_invoked |-> invoked,
     users |-> users, evaluation |-> evaluation]

\* The thread whose evaluation item check_existing_call queries.
\* A query keyed by the thread the session names.
QueriedSessionThread(caddy_message, user_item) ==
    IF Has(user_item, "activeThreadId") THEN user_item.activeThreadId
    ELSE caddy_message.thread_id

QueriedThread(caddy_message, user_item) == caddy_message.thread_id

\* Whether the user item says a call is active.
ActiveCall(user_item) == Present(user_item) /\ user_item.activeCall = TRUE

\* Whether an evaluation item counts as survey complete.
SurveyComplete(item) == Has(item, "surveyResponse")

\* policy is the value execute_optional_modules returns if it is called.
check_existing_call(users, evaluation, caddy_message, policy) ==
    LET user_item == users[caddy_message.user]
        item == evaluation[QueriedThread(caddy_message, user_item)]
        KeyError == GateResult(TRUE, NoItem, FALSE, FALSE, users, evaluation)
    IN  IF Present(user_item) /\ ~Has(user_item, "activeCall") THEN KeyError
        ELSE IF ActiveCall(user_item)
        THEN IF Present(item)
             THEN IF ~(ConfigAttrs \subseteq DOMAIN item) THEN KeyError
                  ELSE GateResult(FALSE, ModuleValuesOf(item), SurveyComplete(item),
                                  FALSE, users, evaluation)
             ELSE IF ~(ConfigAttrs \subseteq DOMAIN user_item) THEN KeyError
                  ELSE GateResult(FALSE, ModuleValuesOf(user_item), FALSE,
                                  FALSE, users, evaluation)
        ELSE LET stored == store_evaluation_module(users, evaluation,
                               caddy_message.user, caddy_message.thread_id,
                               policy, caddy_message.message_id)
             IN GateResult(FALSE,
                    [policy EXCEPT !.modulesUsed[1] = user_arguments(policy)],
                    FALSE, TRUE, stored.users, stored.evaluation)

\* A completion that marks the evaluation item and leaves the session.
MarkEvaluationOnly(users, evaluation, user, thread_id) ==
    [evaluation |-> update_item(evaluation, "threadId", thread_id,
                                [callComplete |-> TRUE]),
     users |-> users]

mark_call_complete(users, evaluation, user, thread_id) ==
    [evaluation |-> update_item(evaluation, "threadId", thread_id,
                                [callComplete |-> TRUE]),
     users |-> update_item(users, "userEmail", user, [activeCall |-> FALSE])]

\* output.get("end_interaction") is truthy.
Truthy(flag) == flag \in {"true", "text"}

\* Some module output is a dict with a truthy end_interaction.
\* A scan that stops at the first module output.
EndInteractionFirstOutput(module_outputs) ==
    /\ module_outputs # <<>>
    /\ module_outputs[1].type = "dict"
    /\ Truthy(module_outputs[1].end_interaction)

EndInteraction(module_outputs) ==
    \E i \in 1..Len(module_outputs) :
        /\ module_outputs[i].type = "dict"
        /\ Truthy(module_outputs[i].end_interaction)

\* ------------------------------------------------------- persistence
store_message(messages, message_query) ==
    put_item(messages, message_query.message_id,
        [messageId |-> message_query.message_id,
         threadId |-> message_query.thread_id,
         userEmail |-> message_query.user])

store_response(responses, response) ==
    put_item(responses, response.thread_id,
        [responseId |-> response.response_id,
         messageId |-> response.message_id,
         threadId |-> response.thread_id,
         llmPrompt |-> response.llm_prompt,
         llmAnswer |-> response.llm_answer,
         llmResponseJSon |-> response.llm_response_json])

store_user_thanked_timestamp(responses, thread_id) ==
    update_item(responses, "threadId", thread_id, [userThankedTimestamp |-> "set"])

store_approver_received_timestamp(responses, thread_id) ==
    update_item(responses, "threadId", thread_id, [approverReceivedTimestamp |-> "set"])

\* A decision stored by replacing the item of the thread.
StoreApproverEventReplacing(responses, approval_event) ==
    put_item(responses, approval_event.thread_id,
        [threadId |-> approval_event.thread_id,
         approverEmail |-> approval_event.approver_email,
         approved |-> approval_event.approved,
         approvalTimestamp |-> "set",
         userResponseTimestamp |-> "set",
         supervisorMessage |-> approval_event.supervisor_message])

store_approver_event(responses, approval_event) ==
    update_item(responses, "threadId", approval_event.thread_id,
        [approverEmail |-> approval_event.approver_email,
         approved |-> approval_event.approved,
         approvalTimestamp |-> "set",
         userResponseTimestamp |-> "set",
         supervisorMessage |-> approval_event.supervisor_message])

\* ------------------------------------------------- answer generation
\* The text one attempt has accumulated: the generator's answer to the
\* message when the stream ended without raising, a part of it (of that
\* attempt) when the stream raised after its first answer fragment.
AnswerText(message_id, attempt, complete) ==
    [message |-> message_id, part |-> IF complete THEN 0 ELSE attempt + 1]

SupCall(call, content) == [call |-> call, content |-> content]

\* What the adviser's message is set to when the first answer fragment of an
\* attempt arrives and response_card goes to the supervisor thread.
\* An update of the adviser's message with the card that is being streamed.
StreamedToAdviser(response_card) == response_card

FirstChunkNotice(response_card) == SUPERVISOR_REVIEWING_RESPONSE

\* State of the retry loop of send_to_llm between attempts.
LoopState(adviser, supervisor, responses, waits, attempts, raised, answer) ==
    [adviser |-> adviser, supervisor |-> supervisor, responses |-> responses,
     waits |-> waits, attempts |-> attempts, raised |-> raised, answer |-> answer]

\* A wait of twice the attempt index.
DoubledBackoff(attempt) == 2 * attempt

\* A wait that grows by one per attempt.
LinearBackoff(attempt) == attempt

\* Backoff before the next attempt.
Backoff(attempt) == attempt * attempt

\* A terminal test that is one attempt late.
PastLastAttempt(attempt) == attempt = MaxAttempts

\* Whether the failure of this attempt is the terminal one.
LastAttempt(attempt) == attempt = MaxAttempts - 1

\* for attempt in range(4): the generator raises in the first `failures`
\* attempts, after its first answer fragment when `partial`, and completes
\* in the next one.  st.responses are the messages created in the supervisor
\* thread; the last one is supervision_caddy_message_id.
RECURSIVE retry_loop(_, _, _, _, _)
retry_loop(attempt, st, caddy_query, failures, partial) ==
    IF attempt >= MaxAttempts THEN st
    ELSE IF attempt < failures
    THEN LET started ==
                IF partial
                THEN [st EXCEPT
                        !.adviser = Append(@, FirstChunkNotice(
                            create_card(AnswerText(caddy_query.message_id, attempt, FALSE), TRUE))),
                        !.responses = Append(@,
                            create_card(AnswerText(caddy_query.message_id, attempt, FALSE), TRUE)),
                        !.supervisor = Append(@, SupCall("respond_to_supervisor_thread",
                            create_card(AnswerText(caddy_query.message_id, attempt, FALSE), TRUE))),
                        !.attempts = @ + 1]
                ELSE [st EXCEPT !.attempts = @ + 1]
         IN IF LastAttempt(attempt)
            THEN [started EXCEPT
                    !.adviser = Append(@, REQUEST_FAILURE),
                    !.supervisor = Append(@, SupCall("update_request", Note("request_failed"))),
                    !.raised = "Caddy failed to response"]
            ELSE retry_loop(attempt + 1,
                    [started EXCEPT
                        !.adviser = Append(@, COMPOSING_MESSAGE_RETRY),
                        !.waits = Append(@, Backoff(attempt))],
                    caddy_query, failures, partial)
    ELSE LET answer == AnswerText(caddy_query.message_id, attempt, TRUE)
         IN [st EXCEPT
                !.adviser = Append(@, FirstChunkNotice(
                    create_card(AnswerText(caddy_query.message_id, attempt, FALSE), TRUE))),
                !.responses = Append(@, create_card(answer, TRUE)),
                !.supervisor = @ \o
                    <<SupCall("respond_to_supervisor_thread",
                              create_card(AnswerText(caddy_query.message_id, attempt, FALSE), TRUE)),
                      SupCall("update_response", create_card(answer, TRUE))>>,
                !.attempts = @ + 1,
                !.answer = answer]

\* A test for a lookup that returned nothing.
SpaceMissing(space_id) == space_id = "None"

\* if supervisor_space == "Unknown": raise
SpaceUnknown(space_id) == space_id = "Unknown"

\* What get_designated_supervisor_space returned to the handler, "none" if
\* the handler did not get to send_to_llm.
Lookup(seen, supervisor_space_name) ==
    [lookup |-> IF \E i \in 1..Len(seen.adviser) : seen.adviser[i] = COMPOSING_MESSAGE
                THEN supervisor_space_name ELSE "none"]

\* The result of send_to_llm: what it wrote to the adviser's message, the
\* calls it made to the supervisor space, the supervisor messages it left,
\* the responses table, and the exception it raised ("none" if it returned).
send_to_llm(caddy_query, responses, supervisor_space_name, failures, partial) ==
    LET none == [raised |-> "supervision space returned unknown",
                 adviser |-> <<>>, supervisor |-> <<>>, waits |-> <<>>,
                 attempts |-> 0, responses |-> responses,
                 space |-> [request |-> NoContent, responses |-> <<>>, sent |-> NoContent]]
        loop == retry_loop(0,
                    LoopState(<<>>, <<SupCall("send_request", Note("request_processing"))>>,
                              <<>>, <<>>, 0, "none", NoContent),
                    caddy_query, failures, partial)
        response_card == create_card(loop.answer, FALSE)
        llm_response == [response_id |-> caddy_query.message_id,
                         message_id |-> caddy_query.message_id,
                         thread_id |-> caddy_query.thread_id,
                         llm_prompt |-> caddy_query.message_id,
                         llm_answer |-> loop.answer,
                         llm_response_json |-> response_card]
        supervision_event == [response_id |-> llm_response.response_id,
                              message_id |-> caddy_query.message_id,
                              thread_id |-> caddy_query.thread_id,
                              user |-> caddy_query.user]
        supervision_card == create_supervision_card(response_card, supervision_event)
        stored == store_approver_received_timestamp(
                      store_user_thanked_timestamp(
                          store_response(responses, llm_response),
                          caddy_query.thread_id),
                      caddy_query.thread_id)
    IN  IF SpaceUnknown(supervisor_space_name) THEN none
        ELSE IF loop.raised # "none"
        THEN [raised |-> loop.raised, adviser |-> loop.adviser,
              supervisor |-> loop.supervisor, waits |-> loop.waits,
              attempts |-> loop.attempts, responses |-> responses,
              space |-> [request |-> Note("request_failed"),
                         responses |-> loop.responses, sent |-> NoContent]]
        ELSE [raised |-> "none",
              adviser |-> Append(loop.adviser, AWAITING_SUPERVISOR_APPROVAL),
              supervisor |-> loop.supervisor \o
                  <<SupCall("update_response", response_card),
                    SupCall("update_request", Note("request_awaiting")),
                    SupCall("update_response", supervision_card)>>,
              waits |-> loop.waits, attempts |-> loop.attempts,
              responses |-> stored,
              space |-> [request |-> Note("request_awaiting"),
                         responses |-> [loop.responses EXCEPT
                                           ![Len(loop.responses)] = supervision_card],
                         sent |-> supervision_card]]

\* ------------------------------------------- text, as Python strings
\* A str is the sequence of its characters.
Adviser_marker == <<"A", "d", "v", "i", "s", "e", "r", ":", " ">>
Advisor_marker == <<"A", "d", "v", "i", "s", "o", "r", ":", " ">>
Whitespace == {" ", "\n"}

\* str.find: the 0-based index of the first occurrence of sub, -1 if none.
find(text, sub) ==
    LET at == {i \in 1..(Len(text) - Len(sub) + 1) :
                  SubSeq(text, i, i + Len(sub) - 1) = sub}
    IN  IF at = {} THEN -1
        ELSE (CHOOSE i \in at : \A j \in at : i <= j) - 1

\* str.strip: without the whitespace at both ends.
strip(text) ==
    LET keep == {i \in 1..Len(text) : text[i] \notin Whitespace}
    IN  IF keep = {} THEN <<>>
        ELSE SubSeq(text, CHOOSE i \in keep : \A j \in keep : i <= j,
                          CHOOSE i \in keep : \A j \in keep : i >= j)

\* response[:index]
slice_to(text, index) == SubSeq(text, 1, index)

\* The pair remove_role_played_responses returns.
Scanned(early_terminate, answer) ==
    [early_terminate |-> early_terminate, answer |-> answer]

remove_role_played_responses(response) ==
    IF find(response, Adviser_marker) # -1
    THEN Scanned(TRUE, strip(slice_to(response, find(response, Adviser_marker))))
    ELSE IF find(response, Advisor_marker) # -1
    THEN Scanned(TRUE, strip(slice_to(response, find(response, Advisor_marker))))
    ELSE Scanned(FALSE, strip(response))

\* ------------------------------- send_to_llm, fragment by fragment
\* The values a fragment (chunk) of chain.stream maps a key to.
StrVal(text) == [type |-> "str", value |-> text]
ListVal(items) == [type |-> "list", value |-> items]

Rep(char, n) == [i \in 1..n |-> char]

\* The answer deltas the generator may yield.
AnswerDeltas ==
    {Rep("x", FlushThreshold - 1), <<" ">>, Adviser_marker, Advisor_marker,
     <<"A", "d", "v", "i", "s">>, <<"e", "r", ":", " ">>}

\* The fragments chain.stream may yield.
Chunks ==
    {[key \in {"answer"} |-> StrVal(delta)] : delta \in AnswerDeltas}
    \cup {[key \in {"input"} |-> StrVal(<<"q">>)],
          [key \in {"context"} |-> ListVal(<<"doc">>)],
          [key \in {"context"} |-> StrVal(<<"c">>)]}

\* for key, value in chunk.items(): concatenate two strs, else replace.
merge_chunk(caddy_response, chunk) ==
    [key \in DOMAIN caddy_response \cup DOMAIN chunk |->
        IF key \notin DOMAIN chunk THEN caddy_response[key]
        ELSE IF /\ key \in DOMAIN caddy_response
                /\ chunk[key].type = "str"
                /\ caddy_response[key].type = "str"
        THEN StrVal(caddy_response[key].value \o chunk[key].value)
        ELSE chunk[key]]

\* The adviser message send_to_llm answers in the fragment-level run.
StreamQuery == [user |-> "adviser1", thread_id |-> 1, message_id |-> 1]

\* The run after the request card went to the supervisor space, at the top
\* of the first attempt.  fragments are the chunks the current attempt has
\* consumed, since is the length of the supervisor log when it started,
\* consumed counts the chunks of all attempts.
StartRun ==
    [pc |-> "streaming", attempt |-> 0,
     first_chunk |-> TRUE, caddy_response |-> NoItem, accumulated_answer |-> <<>>,
     adviser |-> <<>>,
     supervisor |-> <<SupCall("send_request", Note("request_processing"))>>,
     waits |-> <<>>, raised |-> "none",
     responses |-> [t \in Threads |-> NoItem],
     fragments |-> <<>>, since |-> 1, consumed |-> 0, opened |-> 1]

\* An attempt that goes on with the aggregation state it finds.
KeepAggregation(st) == st

\* first_chunk = True; caddy_response = {}; accumulated_answer = ""
ResetAggregation(st) ==
    [st EXCEPT !.first_chunk = TRUE, !.caddy_response = NoItem,
               !.accumulated_answer = <<>>]

\* A flush test that needs more than the threshold.
ExceedsThreshold(accumulated_answer) == Len(accumulated_answer) > FlushThreshold

\* if len(accumulated_answer) >= 75
ReachesThreshold(accumulated_answer) == Len(accumulated_answer) >= FlushThreshold

\* A loop body without the break.
KeepsConsuming(early_terminate) == FALSE

\* if early_terminate is True: break
EarlyTerminates(early_terminate) == early_terminate = TRUE

\* A test that takes every fragment for the first.
AnyChunk(first_chunk) == TRUE

\* if first_chunk
FirstChunk(first_chunk) == first_chunk = TRUE

\* The body of `for chunk in chain.stream(...)` for one chunk.
consume_chunk(st, chunk) ==
    LET merged == merge_chunk(st.caddy_response, chunk)
        response_card == create_card(merged.answer.value, TRUE)
        started ==
            IF FirstChunk(st.first_chunk)
            THEN [st EXCEPT
                    !.supervisor = Append(@,
                        SupCall("respond_to_supervisor_thread", response_card)),
                    !.adviser = Append(@, FirstChunkNotice(response_card)),
                    !.first_chunk = FALSE]
            ELSE st
        accumulated_answer == st.accumulated_answer \o chunk.answer.value
        scan == remove_role_played_responses(merged.answer.value)
    IN  IF "answer" \notin DOMAIN chunk
        THEN [st EXCEPT !.caddy_response = merged]
        ELSE IF ReachesThreshold(accumulated_answer)
        THEN [started EXCEPT
                !.caddy_response = [merged EXCEPT !.answer = StrVal(scan.answer)],
                !.supervisor = Append(@,
                    SupCall("update_response", create_card(scan.answer, TRUE))),
                !.accumulated_answer = <<>>,
                !.pc = IF EarlyTerminates(scan.early_terminate) THEN "exit" ELSE @]
        ELSE [started EXCEPT !.caddy_response = merged,
                             !.accumulated_answer = accumulated_answer]

\* except Exception: the terminal failure on the last attempt, else the
\* retry notice, the wait and the next attempt.
handle_attempt_failure(st) ==
    IF LastAttempt(st.attempt)
    THEN [st EXCEPT
            !.adviser = Append(@, REQUEST_FAILURE),
            !.supervisor = Append(@, SupCall("update_request", Note("request_failed"))),
            !.raised = "Caddy failed to response",
            !.pc = "raised"]
    ELSE ResetAggregation(
            [st EXCEPT
                !.adviser = Append(@, COMPOSING_MESSAGE_RETRY),
                !.waits = Append(@, Backoff(st.attempt)),
                !.attempt = @ + 1])

\* The accumulated answer taken as it is.
Unscanned(answer) == answer

\* The scan applied to the accumulated answer after the loop.
FinalScan(answer) == remove_role_played_responses(answer).answer

\* send_to_llm after the retry loop: the final scan, the stored response and
\* the cards for approval.  caddy_response["answer"] raises KeyError when no
\* fragment carried an answer.
finalise_response(st, caddy_query) ==
    IF "answer" \notin DOMAIN st.caddy_response
    THEN [st EXCEPT !.raised = "KeyError", !.pc = "raised"]
    ELSE LET answer == FinalScan(st.caddy_response.answer.value)
             response_card == create_card(answer, FALSE)
             llm_response == [response_id |-> caddy_query.message_id,
                              message_id |-> caddy_query.message_id,
                              thread_id |-> caddy_query.thread_id,
                              llm_prompt |-> caddy_query.message_id,
                              llm_answer |-> answer,
                              llm_response_json |-> response_card]
             supervision_event == [response_id |-> llm_response.response_id,
                                   message_id |-> caddy_query.message_id,
                                   thread_id |-> caddy_query.thread_id,
                                   user |-> caddy_query.user]
             supervision_card == create_supervision_card(response_card, supervision_event)
         IN  [st EXCEPT
                !.caddy_response = [@ EXCEPT !.answer = StrVal(answer)],
                !.supervisor = @ \o
                    <<SupCall("update_response", response_card),
                      SupCall("update_request", Note("request_awaiting")),
                      SupCall("update_response", supervision_card)>>,
                !.adviser = Append(@, AWAITING_SUPERVISOR_APPROVAL),
                !.responses = store_approver_received_timestamp(
                                  store_user_thanked_timestamp(
                                      store_response(@, llm_response),
                                      caddy_query.thread_id),
                                  caddy_query.thread_id),
                !.pc = "done"]

\* ------------------------------------------------------ handle_message
NoSpace == [request |-> NoContent, responses |-> <<>>, sent |-> NoContent]

Observed(op, caddy_message, outcome, module_values, invoked, adviser, posts, supervisor, attempts, waits, raised) ==
    [op |-> op, user |-> caddy_message.user, thread |-> caddy_message.thread_id,
     message |-> caddy_message.message_id, outcome |-> outcome,
     module_values |-> module_values, policy_invoked |-> invoked,
     adviser |-> adviser, posts |-> posts, supervisor |-> supervisor,
     attempts |-> attempts, waits |-> waits, raised |-> raised]

Handled(users, evaluation, messages, responses, space, cards, seen) ==
    [users |-> users, evaluation |-> evaluation, messages |-> messages,
     responses |-> responses, space |-> space, cards |-> cards, last |-> seen]

\* The decision check_existing_call returns with the module values.
Decision(gate) ==
    IF gate.raised THEN "KeyError"
    ELSE IF gate.survey_complete THEN "SURVEY_ALREADY_COMPLETE"
    ELSE "PROCEED"

\* A handler without the survey check.
SurveyCheckSkipped(survey_complete) == FALSE

\* if survey_complete is True: notify the adviser and return.
SurveyStops(survey_complete) == survey_complete = TRUE

\* The continue_conversation test the other way round.
ControlGroupInverted(module_values) == module_values.continueConversation = TRUE

\* Whether the resolved configuration stops the conversation (control group).
ControlGroup(module_values) == module_values.continueConversation = FALSE

\* handle_message on the tables as they are: the tables it leaves, the
\* supervisor messages of this adviser message, the call-complete cards it
\* posts, and what it did in order.
handle_message_result(users, evaluation, messages, responses, caddy_message, policy, supervisor_space_name, failures, partial) ==
    LET gate == check_existing_call(users, evaluation, caddy_message, policy)
        mv == gate.module_values
        stored == store_message(messages, caddy_message)
        llm == send_to_llm(caddy_message, responses, supervisor_space_name,
                           failures, partial)
        card == [thread |-> caddy_message.thread_id,
                 message |-> caddy_message.message_id]
    IN  IF gate.raised
        THEN Handled(users, evaluation, messages, responses, NoSpace, {},
                Observed("handle_message", caddy_message, Decision(gate), NoItem, FALSE,
                         <<>>, <<>>, <<>>, 0, <<>>, "KeyError"))
        ELSE IF SurveyStops(gate.survey_complete)
        THEN Handled(gate.users, gate.evaluation, messages, responses, NoSpace, {},
                Observed("handle_message", caddy_message, Decision(gate),
                         mv, gate.policy_invoked, <<SURVEY_ALREADY_COMPLETED>>,
                         <<>>, <<>>, 0, <<>>, "none"))
        ELSE IF ControlGroup(mv)
        THEN Handled(gate.users, gate.evaluation, stored, responses, NoSpace, {card},
                Observed("handle_message", caddy_message, Decision(gate), mv,
                         gate.policy_invoked,
                         <<control_group_selection(mv.controlGroupMessage)>>,
                         <<"callCompleteCard">>, <<>>, 0, <<>>, "none"))
        ELSE IF EndInteraction(mv.moduleOutputs)
        THEN Handled(gate.users, gate.evaluation, stored, responses, NoSpace, {},
                Observed("handle_message", caddy_message, Decision(gate), mv,
                         gate.policy_invoked, <<>>, <<>>, <<>>, 0, <<>>, "none"))
        ELSE Handled(gate.users, gate.evaluation, stored, llm.responses, llm.space, {},
                Observed("handle_message", caddy_message, Decision(gate), mv,
                         gate.policy_invoked, <<COMPOSING_MESSAGE>> \o llm.adviser,
                         <<>>, llm.supervisor, llm.attempts, llm.waits, llm.raised))

\* The content a message shows after a sequence of updates.
Shown(content, updates) ==
    IF updates = <<>> THEN content ELSE updates[Len(updates)]

\* ------------------------------ check_existing_call, call by call
\* The workers that handle adviser messages side by side; worker w handles
\* the message with id w.
Workers == {1, 2}

\* A worker before its message arrives.
Arriving == [pc |-> "arriving", thread_id |-> 0, module_values |-> NoItem,
             survey_complete |-> FALSE, policy_invoked |-> FALSE]

\* The message worker w handles.
AdmitMessage(user, w, thread_id) ==
    [user |-> user, thread_id |-> thread_id, message_id |-> w]

\* ------------------------------------------------------------- actions
Idle == [op |-> "none", user |-> "none", thread |-> 0, message |-> 0,
         outcome |-> "none", module_values |-> NoItem, policy_invoked |-> FALSE,
         adviser |-> <<>>, posts |-> <<>>, supervisor |-> <<>>, attempts |-> 0,
         waits |-> <<>>, raised |-> "none"]

Init ==
    /\ users_table = [u \in Users |-> NoItem]
    /\ evaluation_table = [t \in Threads |-> NoItem]
    /\ message_table = [m \in MsgIds |-> NoItem]
    /\ responses_table = [t \in Threads |-> NoItem]
    /\ adviser_space = [m \in MsgIds |-> NoContent]
    /\ thread_cards = {}
    /\ survey_cards = <<>>
    /\ supervisor_space = [m \in MsgIds |-> NoSpace]
    /\ next_id = 1
    /\ last = Idle
    /\ stream_run = StartRun
    /\ admits = [w \in Workers |-> Arriving]
    /\ survey_clicks = <<>>

\* One adviser message on a thread.  GoogleChat.format_message answers it
\* with the processing placeholder, whose id (next_id) the CaddyMessageEvent
\* carries; handle_message then runs on that event.
handle_message(user, thread_id, policy, supervisor_space_name, run) ==
    LET caddy_message == [user |-> user, thread_id |-> thread_id,
                          message_id |-> next_id]
        r == handle_message_result(users_table, evaluation_table, message_table,
                 responses_table, caddy_message, policy, supervisor_space_name,
                 run.failures, run.partial)
    IN  /\ next_id <= MaxMessages
        /\ next_id' = next_id + 1
        /\ users_table' = r.users
        /\ evaluation_table' = r.evaluation
        /\ message_table' = r.messages
        /\ responses_table' = r.responses
        /\ adviser_space' = [adviser_space EXCEPT
              ![next_id] = Shown(PROCESSING_MESSAGE, r.last.adviser)]
        /\ supervisor_space' = [supervisor_space EXCEPT ![next_id] = r.space]
        /\ thread_cards' = thread_cards \cup r.cards
        /\ last' = [r.last EXCEPT !.adviser = <<PROCESSING_MESSAGE>> \o @]
                    @@ Lookup(r.last, supervisor_space_name)
        /\ UNCHANGED <<survey_cards, stream_run, admits, survey_clicks>>

\* The parameters a click on the approve / reject buttons of a supervision
\* card carries (the card's last section).
ButtonParams(supervision_card) ==
    supervision_card.sections[Len(supervision_card.sections)]

\* call_complete_confirmation: a "Mark call complete" card on the thread.
call_complete_confirmation(cards, thread_id, message_id) ==
    cards \cup {[thread |-> thread_id, message |-> message_id]}

\* The supervisor's own view after a decision: the clicked response message
\* and the request message.
DecidedSpace(space, updated_supervision_card, request_card) ==
    [space EXCEPT !.request = request_card,
                  !.responses[Len(space.responses)] = updated_supervision_card]

\* GoogleChat.handle_supervisor_approval (received_approval, then
\* store_approver_event, then call_complete_confirmation) for a click on the
\* approve button of the supervision card of message m.
handle_supervisor_approval(m, approver) ==
    LET supervisor_card == supervisor_space[m].sent
        params == ButtonParams(supervisor_card)
        approved_card == create_approved_card(params.aiResponse, approver)
        updated == create_updated_supervision_card(supervisor_card, approver, TRUE, "")
        approval_event == [response_id |-> params.responseId,
                           thread_id |-> params.threadId,
                           approver_email |-> approver,
                           approved |-> TRUE,
                           supervisor_message |-> "None"]
    IN  /\ supervisor_card # NoContent
        /\ supervisor_space' = [supervisor_space EXCEPT
              ![m] = DecidedSpace(@, updated, Note("request_approved"))]
        /\ adviser_space' = [adviser_space EXCEPT ![params.messageId] = approved_card]
        /\ responses_table' = store_approver_event(responses_table, approval_event)
        /\ thread_cards' = call_complete_confirmation(thread_cards, params.threadId,
                                                      params.messageId)
        /\ last' = [Idle EXCEPT !.op = "handle_supervisor_approval",
                       !.user = params.userEmail, !.thread = params.threadId,
                       !.message = params.messageId,
                       !.adviser = <<approved_card>>,
                       !.posts = <<"callCompleteCard">>,
                       !.supervisor = <<SupCall("update_response", updated),
                                        SupCall("update_request", Note("request_approved"))>>]
        /\ UNCHANGED <<stream_run, admits, survey_clicks, users_table, evaluation_table, message_table, survey_cards,
                       next_id>>

\* GoogleChat.handle_supervisor_rejection for a submitted rejection dialog.
handle_supervisor_rejection(m, approver, supervisor_message) ==
    LET supervisor_card == supervisor_space[m].sent
        params == ButtonParams(supervisor_card)
        notice == supervisor_rejection(approver, supervisor_message)
        updated == create_updated_supervision_card(supervisor_card, approver, FALSE,
                                                   supervisor_message)
        rejection_event == [response_id |-> params.responseId,
                            thread_id |-> params.threadId,
                            approver_email |-> approver,
                            approved |-> FALSE,
                            supervisor_message |-> supervisor_message]
    IN  /\ supervisor_card # NoContent
        /\ supervisor_space' = [supervisor_space EXCEPT
              ![m] = DecidedSpace(@, updated, Note("request_rejected"))]
        /\ adviser_space' = [adviser_space EXCEPT ![params.messageId] = notice]
        /\ responses_table' = store_approver_event(responses_table, rejection_event)
        /\ thread_cards' = call_complete_confirmation(thread_cards, params.threadId,
                                                      params.messageId)
        /\ last' = [Idle EXCEPT !.op = "handle_supervisor_rejection",
                       !.user = params.userEmail, !.thread = params.threadId,
                       !.message = params.messageId,
                       !.adviser = <<notice>>,
                       !.posts = <<"callCompleteCard">>,
                       !.supervisor = <<SupCall("update_request", Note("request_rejected")),
                                        SupCall("update_response", updated)>>]
        /\ UNCHANGED <<stream_run, admits, survey_clicks, users_table, evaluation_table, message_table, survey_cards,
                       next_id>>

\* GoogleChat.finalise_caddy_call: a click by `user` on a "Mark call
\* complete" card; survey_required is what check_if_survey_required answers
\* and survey_card the questions the card's button carries.
finalise_caddy_call(card, user, survey_required, survey_card) ==
    LET done == mark_call_complete(users_table, evaluation_table, user, card.thread)
    IN  /\ card \in thread_cards
        /\ survey_required => Len(survey_cards) < MaxSurveyCards
        /\ users_table' = done.users
        /\ evaluation_table' = done.evaluation
        /\ thread_cards' = IF survey_required THEN thread_cards \ {card}
                           ELSE thread_cards
        /\ survey_cards' = IF survey_required
                           THEN Append(survey_cards,
                                    [thread |-> card.thread, sections |-> survey_card,
                                     complete |-> FALSE])
                           ELSE survey_cards
        /\ last' = [Idle EXCEPT !.op = "finalise_caddy_call", !.user = user,
                       !.thread = card.thread, !.message = card.message,
                       !.posts = IF survey_required
                                 THEN <<"CALL_COMPLETE", "postCallSurvey">>
                                 ELSE <<>>]
                    @@ [survey_required |-> survey_required]
        /\ UNCHANGED <<stream_run, admits, survey_clicks, message_table, responses_table, adviser_space,
                       supervisor_space, next_id>>

\* del card sections[i] for the first section showing the question.
RECURSIVE DeleteFirst(_, _)
DeleteFirst(sections, question) ==
    IF sections = <<>> THEN <<>>
    ELSE IF Head(sections) = question THEN Tail(sections)
    ELSE <<Head(sections)>> \o DeleteFirst(Tail(sections), question)

\* An append that puts the new answer in front of the earlier ones.
PrependSurveyResponse(evaluation, thread_id, question, response) ==
    LET item == evaluation[thread_id]
        old == IF Has(item, "surveyResponse") THEN item.surveyResponse ELSE <<>>
    IN update_item(evaluation, "threadId", thread_id,
           [surveyResponse |-> <<[question |-> question, response |-> response]>>
                               \o old])

\* list_append(if_not_exists(surveyResponse, []), [{question: response}])
append_survey_response(evaluation, thread_id, question, response) ==
    LET item == evaluation[thread_id]
        old == IF Has(item, "surveyResponse") THEN item.surveyResponse ELSE <<>>
    IN update_item(evaluation, "threadId", thread_id,
           [surveyResponse |-> Append(old, [question |-> question,
                                            response |-> response])])

\* GoogleChat.handle_survey_response: a click on an answer of a question
\* still shown on survey card c.
handle_survey_response(c, question, response) ==
    LET card == survey_cards[c]
        remaining == DeleteFirst(card.sections, question)
    IN  /\ c \in 1..Len(survey_cards)
        /\ \E i \in 1..Len(card.sections) : card.sections[i] = question
        /\ evaluation_table' = append_survey_response(evaluation_table, card.thread,
                                                      question, response)
        /\ survey_cards' = [survey_cards EXCEPT
              ![c] = [card EXCEPT !.sections = remaining,
                                  !.complete = (Len(remaining) = 0)]]
        /\ last' = [Idle EXCEPT !.op = "handle_survey_response",
                       !.thread = card.thread]
        /\ UNCHANGED <<stream_run, admits, survey_clicks, users_table, message_table, responses_table, adviser_space,
                       thread_cards, supervisor_space, next_id>>

Next ==
    \/ \E user \in Users, thread_id \in Threads, policy \in ModuleValues,
          supervisor_space_name \in {"supervisors", "Unknown"},
          run \in GeneratorRuns :
            handle_message(user, thread_id, policy, supervisor_space_name, run)
    \/ \E m \in MsgIds, approver \in Approvers :
            handle_supervisor_approval(m, approver)
    \/ \E m \in MsgIds, approver \in Approvers, supervisor_message \in Feedback :
            handle_supervisor_rejection(m, approver, supervisor_message)
    \/ \E card \in thread_cards, user \in Users, survey_required \in BOOLEAN :
            finalise_caddy_call(card, user, survey_required, Questions)
    \/ \E c \in 1..Len(survey_cards), i \in 1..Len(Questions),
          response \in SurveyValues :
            handle_survey_response(c, Questions[i], response)

Spec == Init /\ [][Next]_vars

\* ------------------- actions of check_existing_call run by several workers
\* Every table call of check_existing_call is a step of its own; the
\* workers' steps interleave.
Handlers == <<message_table, responses_table, adviser_space, thread_cards,
              survey_cards, supervisor_space, next_id, last, stream_run,
              survey_clicks>>

\* A message of the adviser reaches worker w.
AdmitArrives(w, thread_id) ==
    /\ admits[w].pc = "arriving"
    /\ admits' = [admits EXCEPT ![w].pc = "get_user", ![w].thread_id = thread_id]
    /\ UNCHANGED <<Handlers, users_table, evaluation_table>>

\* users_table.get_item and the test of activeCall.
AdmitGetUser(w, user) ==
    LET user_item == users_table[user]
    IN  /\ admits[w].pc = "get_user"
        /\ admits' = [admits EXCEPT ![w].pc =
              IF Present(user_item) /\ ~Has(user_item, "activeCall") THEN "KeyError"
              ELSE IF ActiveCall(user_item) THEN "query"
              ELSE "execute_optional_modules"]
        /\ UNCHANGED <<Handlers, users_table, evaluation_table>>

\* evaluation_table.query on the message's thread and the return on a hit.
AdmitQuery(w, user) ==
    LET caddy_message == AdmitMessage(user, w, admits[w].thread_id)
        item == evaluation_table[QueriedThread(caddy_message, users_table[user])]
    IN  /\ admits[w].pc = "query"
        /\ admits' = [admits EXCEPT ![w] =
              IF ~Present(item) THEN [@ EXCEPT !.pc = "get_active"]
              ELSE IF ~(ConfigAttrs \subseteq DOMAIN item)
              THEN [@ EXCEPT !.pc = "KeyError"]
              ELSE [@ EXCEPT !.pc = "returned",
                             !.module_values = ModuleValuesOf(item),
                             !.survey_complete = SurveyComplete(item)]]
        /\ UNCHANGED <<Handlers, users_table, evaluation_table>>

\* The second users_table.get_item and the return with the session's values.
AdmitGetActive(w, user) ==
    LET user_item == users_table[user]
    IN  /\ admits[w].pc = "get_active"
        /\ admits' = [admits EXCEPT ![w] =
              IF ~Present(user_item) THEN [@ EXCEPT !.pc = "returned"]
              ELSE IF ~(ConfigAttrs \subseteq DOMAIN user_item)
              THEN [@ EXCEPT !.pc = "KeyError"]
              ELSE [@ EXCEPT !.pc = "returned",
                             !.module_values = ModuleValuesOf(user_item)]]
        /\ UNCHANGED <<Handlers, users_table, evaluation_table>>

\* execute_optional_modules answers with policy.
AdmitModules(w, policy) ==
    /\ admits[w].pc = "execute_optional_modules"
    /\ admits' = [admits EXCEPT ![w].pc = "put_item",
                                ![w].module_values = policy,
                                ![w].policy_invoked = TRUE]
    /\ UNCHANGED <<Handlers, users_table, evaluation_table>>

\* store_evaluation_module: evaluation_table.put_item.
AdmitPutItem(w) ==
    /\ admits[w].pc = "put_item"
    /\ evaluation_table' = put_item(evaluation_table, admits[w].thread_id,
            EvaluationItem(admits[w].thread_id, admits[w].module_values, w))
    /\ admits' = [admits EXCEPT ![w].pc = "update_item"]
    /\ UNCHANGED <<Handlers, users_table>>

\* store_evaluation_module: users_table.update_item, and the return.
AdmitUpdateItem(w, user) ==
    /\ admits[w].pc = "update_item"
    /\ users_table' = update_item(users_table, "userEmail", user,
            UserCallAttrs(admits[w].thread_id, admits[w].module_values, w))
    /\ admits' = [admits EXCEPT
          ![w].pc = "returned",
          ![w].module_values =
              [@ EXCEPT !.modulesUsed[1] = user_arguments(admits[w].module_values)]]
    /\ UNCHANGED <<Handlers, evaluation_table>>

AdmitNext ==
    \E w \in Workers, user \in Users :
        \/ \E thread_id \in Threads : AdmitArrives(w, thread_id)
        \/ AdmitGetUser(w, user)
        \/ AdmitQuery(w, user)
        \/ AdmitGetActive(w, user)
        \/ \E policy \in ModuleValues : AdmitModules(w, policy)
        \/ AdmitPutItem(w)
        \/ AdmitUpdateItem(w, user)

AdmitSpec == Init /\ [][AdmitNext]_vars

\* --------------------------- actions of the fragment-level run of send_to_llm
Tables == <<users_table, evaluation_table, message_table, responses_table,
            adviser_space, thread_cards, survey_cards, supervisor_space,
            next_id, last>>

\* chain.stream yields a chunk and the loop body runs on it.
StreamChunk(chunk) ==
    /\ stream_run.pc = "streaming"
    /\ stream_run.consumed < MaxChunks
    /\ stream_run' = [consume_chunk(stream_run, chunk) EXCEPT
                  !.fragments = Append(@, chunk), !.consumed = @ + 1]
    /\ UNCHANGED <<Tables, admits, survey_clicks>>

\* chain.stream is exhausted: the break after the inner loop.
StreamExhausted ==
    /\ stream_run.pc = "streaming"
    /\ stream_run' = [stream_run EXCEPT !.pc = "exit"]
    /\ UNCHANGED <<Tables, admits, survey_clicks>>

\* chain.stream raises: the except branch, and the next attempt if any.
StreamRaises ==
    /\ stream_run.pc = "streaming"
    /\ stream_run' = LET out == handle_attempt_failure(stream_run)
              IN  IF out.pc = "raised" THEN out
                  ELSE [out EXCEPT !.fragments = <<>>,
                                   !.since = Len(out.supervisor),
                                   !.opened = @ + 1]
    /\ UNCHANGED <<Tables, admits, survey_clicks>>

\* The code after the retry loop.
Finalise ==
    /\ stream_run.pc = "exit"
    /\ stream_run' = finalise_response(stream_run, StreamQuery)
    /\ UNCHANGED <<Tables, admits, survey_clicks>>

StreamNext ==
    \/ \E chunk \in Chunks : StreamChunk(chunk)
    \/ StreamExhausted
    \/ StreamRaises
    \/ Finalise

StreamSpec == Init /\ [][StreamNext]_vars

\* The run of send_to_llm when every stream is finite: the loop over a
\* stream, the retry loop and the code after it are never left pending.
StreamFairSpec == StreamSpec /\ WF_vars(StreamNext)

\* ------------------------------ the handlers run with a survey of several
\* questions: calls answered at the first attempt, approved, marked complete
\* and surveyed.
SurveyNext ==
    \/ \E user \in Users, thread_id \in Threads, policy \in ModuleValues :
            handle_message(user, thread_id, policy, "supervisors",
                           [failures |-> 0, partial |-> FALSE])
    \/ \E m \in MsgIds, approver \in Approvers :
            handle_supervisor_approval(m, approver)
    \/ \E card \in thread_cards, user \in Users, survey_required \in BOOLEAN :
            finalise_caddy_call(card, user, survey_required, PostCallSurvey)
    \/ \E c \in 1..Len(survey_cards), i \in 1..Len(PostCallSurvey),
          response \in PostCallValues :
            handle_survey_response(c, PostCallSurvey[i], response)

SurveySpec == Init /\ [][SurveyNext]_vars

\* ------------------------- actions of a survey answered click by click
\* A click on an answer of a question shown on survey card c; the event
\* carries the card as it is shown now (event["message"]["cardsV2"]).
SurveyClick(c, question, response) ==
    /\ Len(survey_clicks) < MaxClicks
    /\ c \in 1..Len(survey_cards)
    /\ \E i \in 1..Len(survey_cards[c].sections) :
          survey_cards[c].sections[i] = question
    /\ survey_clicks' = Append(survey_clicks,
          [card_id |-> c, sections |-> survey_cards[c].sections,
           question |-> question, response |-> response, handled |-> FALSE])
    /\ UNCHANGED <<Tables, stream_run, admits>>

\* GoogleChat.handle_survey_response on event e: the answer is appended and
\* the card the event carries, less the question, replaces the message.
SurveyHandled(e) ==
    LET event == survey_clicks[e]
        card == survey_cards[event.card_id]
        remaining == DeleteFirst(event.sections, event.question)
    IN  /\ e \in 1..Len(survey_clicks)
        /\ ~event.handled
        /\ evaluation_table' = append_survey_response(evaluation_table, card.thread,
                                    event.question, event.response)
        /\ survey_cards' = [survey_cards EXCEPT
              ![event.card_id] = [card EXCEPT !.sections = remaining,
                                              !.complete = (Len(remaining) = 0)]]
        /\ survey_clicks' = [survey_clicks EXCEPT ![e].handled = TRUE]
        /\ last' = [Idle EXCEPT !.op = "handle_survey_response",
                       !.thread = card.thread]
        /\ UNCHANGED <<stream_run, admits, users_table, message_table, responses_table,
                       adviser_space, thread_cards, supervisor_space, next_id>>

\* One call, marked complete and surveyed; the clicks on the survey card
\* and their handling interleave.
ClickNext ==
    \/ \E user \in Users, thread_id \in Threads, policy \in ModuleValues :
            /\ next_id = 1
            /\ handle_message(user, thread_id, policy, "supervisors",
                              [failures |-> 0, partial |-> FALSE])
    \/ \E card \in thread_cards, user \in Users :
            finalise_caddy_call(card, user, TRUE, PostCallSurvey)
    \/ \E c \in 1..Len(survey_cards), i \in 1..Len(PostCallSurvey),
          response \in PostCallValues :
            SurveyClick(c, PostCallSurvey[i], response)
    \/ \E e \in 1..Len(survey_clicks) : SurveyHandled(e)

ClickSpec == Init /\ [][ClickNext]_vars

\* ================================================================ claims
\* A step that handles one adviser message (the only one that takes an id).
AdmitStep == next_id' = next_id + 1

\* The status placeholders an adviser's message may show while it is processed.
Placeholders ==
    {PROCESSING_MESSAGE, COMPOSING_MESSAGE, COMPOSING_MESSAGE_RETRY,
     SUPERVISOR_REVIEWING_RESPONSE, AWAITING_SUPERVISOR_APPROVAL, REQUEST_FAILURE}

\* The updates of the adviser's message made by the last handler.
Updates == {last.adviser[i] : i \in 1..Len(last.adviser)}

\* An answer card carrying the approved marker of an approver.
ApprovedCard(content, m) ==
    /\ ShowsAnswer(content)
    /\ content.sections[1].text.message = m
    /\ content.sections[Len(content.sections)].type = "approved"
    /\ content.sections[Len(content.sections)].approver \in Approvers

OpenCalls ==
    {t \in Threads : /\ Has(evaluation_table[t], "callComplete")
                     /\ evaluation_table[t].callComplete = FALSE}

\* C2: single active call per user: at most one EvaluationRecord of the
\* user has callComplete = false at any time.
C2_SingleActiveCall == Cardinality(OpenCalls) <= 1

\* C3: activeCall is true iff an EvaluationRecord exists for activeThreadId
\* with callComplete = false.
C3_ActiveCallIffOpenRecord ==
    \A u \in Users :
        Present(users_table[u]) =>
            (users_table[u].activeCall = TRUE
                <=> (/\ Has(users_table[u], "activeThreadId")
                     /\ users_table[u].activeThreadId \in OpenCalls))

\* C4: once a thread's EvaluationRecord carries a survey response, a later
\* message on that thread is answered with SURVEY_ALREADY_COMPLETE and
\* produces no new AnswerResponse.
C4_SurveyShortCircuit ==
    [][(AdmitStep /\ Has(evaluation_table[last'.thread], "surveyResponse"))
          => (/\ last'.outcome = "SURVEY_ALREADY_COMPLETE"
              /\ responses_table' = responses_table)]_vars

\* C5: when admit returns SURVEY_ALREADY_COMPLETE the adviser is notified and
\* processing stops: the four tables are unchanged, the module policy is not
\* invoked, nothing goes to the supervisor and no attempt is opened.
C5_SurveyCompleteStops ==
    [][(AdmitStep /\ last'.outcome = "SURVEY_ALREADY_COMPLETE")
          => (/\ last'.adviser = <<PROCESSING_MESSAGE, SURVEY_ALREADY_COMPLETED>>
              /\ UNCHANGED <<message_table, responses_table, evaluation_table,
                             users_table, thread_cards, supervisor_space>>
              /\ last'.policy_invoked = FALSE
              /\ last'.attempts = 0
              /\ last'.supervisor = <<>>
              /\ last'.posts = <<>>)]_vars

\* A message was answered with the survey-already-completed notice.
C5_Witness ==
    /\ last.op = "handle_message"
    /\ last.outcome = "SURVEY_ALREADY_COMPLETE"
    /\ adviser_space[last.message] = SURVEY_ALREADY_COMPLETED
    /\ ~Present(message_table[last.message])

\* C6: a message of a user with no session or with activeCall = false invokes
\* the module policy, creates the EvaluationRecord of the message's thread
\* with callComplete = false, sets activeCall = true and activeThreadId to
\* that thread, stores the same configuration in both items and returns
\* PROCEED with that configuration.
C6_OpensCall ==
    [][(AdmitStep /\ ~(/\ Present(users_table[last'.user])
                       /\ users_table[last'.user].activeCall = TRUE))
          => LET record == evaluation_table'[last'.thread]
                 session == users_table'[last'.user]
                 returned == last'.module_values
             IN  /\ last'.policy_invoked = TRUE
                 /\ last'.outcome = "PROCEED"
                 /\ returned \in {[mv EXCEPT !.modulesUsed[1].module_arguments.split
                                                 = ToString(@)] : mv \in ModuleValues}
                 /\ record.threadId = last'.thread
                 /\ record.callComplete = FALSE
                 /\ ~Has(record, "surveyResponse")
                 /\ session.activeCall = TRUE
                 /\ session.activeThreadId = last'.thread
                 /\ \A a \in ConfigAttrs : record[a] = session[a]
                 /\ record.modulesUsed = returned.modulesUsed[1]
                 /\ record.moduleOutputs = returned.moduleOutputs
                 /\ record.continueConversation = returned.continueConversation
                 /\ record.controlGroupMessage = returned.controlGroupMessage
                 /\ \A t \in Threads \ {last'.thread} :
                        evaluation_table'[t] = evaluation_table[t]]_vars

\* A second call was opened, on a thread other than the first call's.
C6_Witness ==
    /\ last.op = "handle_message"
    /\ last.policy_invoked
    /\ last.message > 1
    /\ users_table[last.user].activeThreadId = last.thread
    /\ \E t \in Threads \ {last.thread} : Present(evaluation_table[t])

\* The adviser's session says a call is active before the step.
CallActive(u) == Present(users_table[u]) /\ users_table[u].activeCall = TRUE

\* The decision an evaluation item stands for.
DecisionOn(record) ==
    IF Has(record, "surveyResponse") THEN "SURVEY_ALREADY_COMPLETE" ELSE "PROCEED"

\* C7: while a call is active a further message reuses it: the module policy
\* is not invoked, no attribute of an evaluation item or of the session is
\* written, and the configuration returned is the one assigned when the call
\* was opened (the one store_evaluation_module left in the session).
C7_ActiveCallReused ==
    [][(AdmitStep /\ CallActive(last'.user))
          => (/\ last'.policy_invoked = FALSE
              /\ UNCHANGED <<users_table, evaluation_table>>
              /\ last'.module_values = ModuleValuesOf(users_table[last'.user]))]_vars

C9_ControlGroupStops ==
    [][(/\ AdmitStep
        /\ last'.outcome = "PROCEED"
        /\ last'.module_values.continueConversation = FALSE)
          => (/\ Present(message_table'[last'.message])
              /\ message_table'[last'.message].threadId = last'.thread
              /\ last'.adviser =
                    <<PROCESSING_MESSAGE,
                      control_group_selection(last'.module_values.controlGroupMessage)>>
              /\ last'.posts = <<"callCompleteCard">>
              /\ [thread |-> last'.thread, message |-> last'.message] \in thread_cards'
              /\ last'.attempts = 0
              /\ last'.supervisor = <<>>
              /\ UNCHANGED <<responses_table, supervisor_space>>)]_vars

\* A later message of a control-group call (the policy was not invoked for
\* it) got the control-group explanation and the call-complete card.
C9_Witness ==
    /\ last.op = "handle_message"
    /\ ~last.policy_invoked
    /\ last.outcome = "PROCEED"
    /\ last.module_values.continueConversation = FALSE
    /\ adviser_space[last.message].kind = "controlGroupCard"
    /\ [thread |-> last.thread, message |-> last.message] \in thread_cards

\* Some module output is a dict whose end_interaction is truthy.
EndFlagged(outputs) ==
    \E i \in 1..Len(outputs) :
        outputs[i].type = "dict" /\ outputs[i].end_interaction \in {"true", "text"}

\* C10: with continueConversation true and a truthy end_interaction in some
\* module output, processing stops after the message is stored: the adviser's
\* message keeps the processing placeholder, nothing goes to the supervisor,
\* no attempt is opened.  A message reaches answer generation only past the
\* survey check, then the continueConversation check, then the
\* end_interaction check: a survey-complete message is not even stored, and a
\* control-group configuration with an end_interaction flag gets the
\* control-group treatment.
C10_EndInteractionStops ==
    [][AdmitStep
          => LET mv == last'.module_values
                 proceeds == last'.outcome = "PROCEED"
                 generation ==
                    \/ \E i \in 1..Len(last'.adviser) :
                            last'.adviser[i] = COMPOSING_MESSAGE
                    \/ last'.attempts > 0
                    \/ last'.supervisor # <<>>
             IN  /\ (/\ proceeds
                     /\ mv.continueConversation = TRUE
                     /\ EndFlagged(mv.moduleOutputs))
                      => (/\ Present(message_table'[last'.message])
                          /\ last'.adviser = <<PROCESSING_MESSAGE>>
                          /\ last'.supervisor = <<>>
                          /\ last'.attempts = 0
                          /\ last'.posts = <<>>
                          /\ UNCHANGED <<responses_table, supervisor_space,
                                         thread_cards>>)
                 /\ generation
                      => (/\ proceeds
                          /\ mv.continueConversation = TRUE
                          /\ ~EndFlagged(mv.moduleOutputs)
                          /\ Present(message_table'[last'.message]))
                 /\ last'.outcome = "SURVEY_ALREADY_COMPLETE"
                      => ~Present(message_table'[last'.message])
                 /\ (/\ proceeds
                     /\ mv.continueConversation = FALSE
                     /\ EndFlagged(mv.moduleOutputs))
                      => last'.posts = <<"callCompleteCard">>]_vars

\* A message of a call whose modules signal end_interaction was stored and
\* left with the processing placeholder, nothing else done.
C10_Witness ==
    /\ last.op = "handle_message"
    /\ last.outcome = "PROCEED"
    /\ last.module_values.continueConversation = TRUE
    /\ EndFlagged(last.module_values.moduleOutputs)
    /\ Present(message_table[last.message])
    /\ adviser_space[last.message] = PROCESSING_MESSAGE
    /\ supervisor_space[last.message] = NoSpace

\* ------------------------------------------------ the streamed answer
\* The answer text a fragment carries.
AnswerDelta(chunk) ==
    IF "answer" \in DOMAIN chunk THEN chunk.answer.value ELSE <<>>

Front(seq) == SubSeq(seq, 1, Len(seq) - 1)
Last(seq) == seq[Len(seq)]

\* The answer text of a fragment sequence, in arrival order.
RECURSIVE AnswerOf(_)
AnswerOf(fragments) ==
    IF fragments = <<>> THEN <<>>
    ELSE AnswerOf(Front(fragments)) \o AnswerDelta(Last(fragments))

\* The answer text that arrived since the last flush, when a flush happens
\* after each fragment that brings that text to the threshold.
RECURSIVE Unflushed(_)
Unflushed(fragments) ==
    IF fragments = <<>> THEN <<>>
    ELSE LET text == Unflushed(Front(fragments)) \o AnswerDelta(Last(fragments))
         IN  IF "answer" \in DOMAIN Last(fragments) /\ Len(text) >= FlushThreshold
             THEN <<>> ELSE text

\* The number of such flushes.
RECURSIVE Flushes(_)
Flushes(fragments) ==
    IF fragments = <<>> THEN 0
    ELSE LET text == Unflushed(Front(fragments)) \o AnswerDelta(Last(fragments))
         IN  Flushes(Front(fragments))
             + (IF "answer" \in DOMAIN Last(fragments) /\ Len(text) >= FlushThreshold
                THEN 1 ELSE 0)

\* The supervisor calls of the current attempt.
AttemptCalls ==
    SubSeq(stream_run.supervisor, stream_run.since + 1, Len(stream_run.supervisor))

\* The interim updates of the current attempt, the 'answer started' one aside.
InterimUpdates ==
    {i \in 1..Len(AttemptCalls) : AttemptCalls[i].call = "update_response"}

\* C11: after every fragment of an attempt, the interim updates sent in the
\* attempt are exactly the flushes of a buffer that collects the answer text
\* and is emptied each time it holds 75 characters or more after a fragment;
\* the flush buffer is that buffer, so every flush has its own 75 characters.
C11_FlushThreshold ==
    stream_run.pc \in {"streaming", "exit"}
        => /\ Cardinality(InterimUpdates) = Flushes(stream_run.fragments)
           /\ stream_run.accumulated_answer = Unflushed(stream_run.fragments)
           /\ FlushThreshold * Cardinality(InterimUpdates)
                 <= Len(AnswerOf(stream_run.fragments))

\* An attempt of four fragments flushed twice.
C11_Witness ==
    /\ stream_run.pc = "streaming"
    /\ Cardinality(InterimUpdates) = 2
    /\ Len(stream_run.fragments) = 4

\* The 0-based index of the first occurrence of either marker, -1 if none.
FirstMarker(text) ==
    LET adviser_index == find(text, Adviser_marker)
        advisor_index == find(text, Advisor_marker)
    IN  IF adviser_index = -1 THEN advisor_index
        ELSE IF advisor_index = -1 THEN adviser_index
        ELSE IF adviser_index < advisor_index THEN adviser_index
        ELSE advisor_index

\* The response item send_to_llm stored for the streamed message.
StoredResponse == stream_run.responses[StreamQuery.thread_id]

\* C12: if the answer text of the successful attempt's fragments contains
\* "Adviser: " or "Advisor: ", the finalized answer is the text strictly
\* before the first occurrence of either marker (here even up to whitespace
\* at its two ends), however the text was split into fragments.
C12_TruncationIdempotent ==
    stream_run.pc = "done"
        => LET text == AnswerOf(stream_run.fragments)
           IN  FirstMarker(text) # -1
                  => StoredResponse.llmAnswer
                        = strip(slice_to(text, FirstMarker(text)))

\* A step that consumes one more fragment of the current attempt.
ConsumeStep ==
    /\ stream_run.pc = "streaming"
    /\ stream_run'.consumed = stream_run.consumed + 1

\* The accumulated answer the code holds, as text ("" before any answer).
HeldAnswer(st) ==
    IF "answer" \in DOMAIN st.caddy_response
    THEN st.caddy_response.answer.value ELSE <<>>

\* C13: when the scan made at a flush finds a marker, the truncated interim
\* update is sent and the stream is left (no further fragment is consumed);
\* an attempt left with an answer is a success: the next step finalizes it
\* with no retry notice, no wait and no further attempt.
C13_EarlyTermination ==
    [][/\ (/\ ConsumeStep
           /\ "answer" \in DOMAIN Last(stream_run'.fragments)
           /\ Len(stream_run.accumulated_answer
                    \o AnswerDelta(Last(stream_run'.fragments))) >= FlushThreshold
           /\ FirstMarker(HeldAnswer(stream_run)
                    \o AnswerDelta(Last(stream_run'.fragments))) # -1)
            => LET text == HeldAnswer(stream_run)
                              \o AnswerDelta(Last(stream_run'.fragments))
               IN  /\ stream_run'.pc = "exit"
                   /\ Last(stream_run'.supervisor) =
                        SupCall("update_response",
                            create_card(remove_role_played_responses(text).answer, TRUE))
                   /\ Len(HeldAnswer(stream_run')) < Len(text)
                   /\ stream_run'.attempt = stream_run.attempt
                   /\ stream_run'.waits = stream_run.waits
       /\ (stream_run.pc = "exit" /\ "answer" \in DOMAIN stream_run.caddy_response)
            => /\ stream_run'.pc = "done"
               /\ stream_run'.raised = "none"
               /\ stream_run'.fragments = stream_run.fragments
               /\ stream_run'.consumed = stream_run.consumed
               /\ stream_run'.attempt = stream_run.attempt
               /\ stream_run'.opened = stream_run.opened
               /\ stream_run'.waits = stream_run.waits
               /\ stream_run'.adviser =
                    Append(stream_run.adviser, AWAITING_SUPERVISOR_APPROVAL)]_vars

\* A run finalized after an early termination: the last fragment consumed
\* brought a flush whose scan found a marker, with chunks still to come.
C13_Witness ==
    /\ stream_run.pc = "done"
    /\ stream_run.fragments # <<>>
    /\ "answer" \in DOMAIN Last(stream_run.fragments)
    /\ Unflushed(stream_run.fragments) = <<>>
    /\ FirstMarker(AnswerOf(stream_run.fragments)) # -1
    /\ stream_run.consumed < MaxChunks

RECURSIVE FieldOf(_, _)
FieldOf(fragments, key) ==
    IF fragments = <<>> THEN NoItem
    ELSE LET current == FieldOf(Front(fragments), key)
             chunk == Last(fragments)
         IN  IF key \notin DOMAIN chunk THEN current
             ELSE IF Present(current) /\ current.type = "str"
                                      /\ chunk[key].type = "str"
             THEN StrVal(current.value \o chunk[key].value)
             ELSE chunk[key]

FieldNames == {"answer", "input", "context"}

\* C15: while an attempt consumes its stream, the accumulated response has
\* exactly the fields the fragments named, and each field is the
\* concatenation of its string values in arrival order, restarted from the
\* latest value wherever that or the current value was not a string.
C15_FragmentMerge ==
    stream_run.pc = "streaming"
        => \A key \in FieldNames :
              IF key \in DOMAIN stream_run.caddy_response
              THEN stream_run.caddy_response[key] = FieldOf(stream_run.fragments, key)
              ELSE ~Present(FieldOf(stream_run.fragments, key))

\* The aggregation state an attempt reaches on these fragments alone.
RECURSIVE Replay(_)
Replay(fragments) ==
    IF fragments = <<>> THEN ResetAggregation(StartRun)
    ELSE consume_chunk(Replay(Front(fragments)), Last(fragments))

\* C16: when the generator raised in attempts 1, 2 and 3 and attempt 4
\* succeeded, the waits were 0, 1 and 4 in that order and no other wait was
\* made, four streams were opened, no error was raised, and the stored answer
\* is the one attempt 4's fragments give on their own.
C16_RetrySuccess ==
    /\ stream_run.opened = 1 => stream_run.waits = <<>>
    /\ (stream_run.pc = "done" /\ stream_run.attempt = 3)
          => /\ stream_run.waits = <<0, 1, 4>>
             /\ stream_run.opened = MaxAttempts
             /\ stream_run.raised = "none"
             /\ ~\E i \in 1..Len(stream_run.adviser) :
                    stream_run.adviser[i] = REQUEST_FAILURE
             /\ StoredResponse.llmAnswer =
                    FinalScan(HeldAnswer(Replay(stream_run.fragments)))

\* The fourth attempt succeeded after failed attempts that had consumed
\* fragments of their own.
C16_Witness ==
    /\ stream_run.pc = "done"
    /\ stream_run.attempt = 3
    /\ stream_run.consumed > Len(stream_run.fragments)
    /\ Len(StoredResponse.llmAnswer) > 0

\* How many entries of a log satisfy a test on their content.
Count(log, content) == Cardinality({i \in 1..Len(log) : log[i] = content})

\* Whether a content sent to the supervisor carries approve / reject buttons.
HasButtons(content) ==
    /\ Has(content, "sections")
    /\ \E i \in 1..Len(content.sections) : content.sections[i].type = "buttons"

\* C17: never more than four attempts are opened; when the generator raised
\* in all four, the adviser's message and the supervisor's request message
\* each got the failure notice exactly once, the error is raised to the
\* caller, no response item was stored and nothing with approve / reject
\* buttons went to the supervisor.
C17_RetryFailure ==
    /\ stream_run.opened <= MaxAttempts
    /\ stream_run.attempt < MaxAttempts
    /\ stream_run.raised = "Caddy failed to response"
          => /\ stream_run.pc = "raised"
             /\ stream_run.opened = MaxAttempts
             /\ Count(stream_run.adviser, REQUEST_FAILURE) = 1
             /\ Last(stream_run.adviser) = REQUEST_FAILURE
             /\ Count(stream_run.supervisor,
                      SupCall("update_request", Note("request_failed"))) = 1
             /\ \A t \in Threads : ~Present(stream_run.responses[t])
             /\ \A i \in 1..Len(stream_run.supervisor) :
                    ~HasButtons(stream_run.supervisor[i].content)
    /\ stream_run.opened = MaxAttempts /\ stream_run.pc = "raised"
          => stream_run.raised \in {"Caddy failed to response", "KeyError"}

\* All four attempts raised, some of them after fragments had been streamed
\* to the supervisor.
C17_Witness ==
    /\ stream_run.pc = "raised"
    /\ stream_run.raised = "Caddy failed to response"
    /\ stream_run.consumed > 0
    /\ Len(stream_run.supervisor) > 2

\* A step in which the stream of the current attempt raises.
RaiseStep ==
    /\ stream_run.pc = "streaming"
    /\ stream_run'.consumed = stream_run.consumed
    /\ stream_run'.pc # "exit"

\* C18: a failure of an attempt that is not the fourth puts exactly one
\* retrying notice on the adviser's message and then waits i^2 (i the 0-based
\* index of the failed attempt) before the next attempt is opened; no other
\* step adds a notice, a wait or an attempt, so the notices count the
\* attempts that failed before the first success, three at most.
C18_RetryNotices ==
    [][/\ (RaiseStep /\ stream_run.attempt < MaxAttempts - 1)
            => /\ stream_run'.adviser =
                    Append(stream_run.adviser, COMPOSING_MESSAGE_RETRY)
               /\ stream_run'.waits =
                    Append(stream_run.waits, stream_run.attempt * stream_run.attempt)
               /\ stream_run'.attempt = stream_run.attempt + 1
               /\ stream_run'.opened = stream_run.opened + 1
               /\ stream_run'.pc = "streaming"
               /\ stream_run'.supervisor = stream_run.supervisor
       /\ ~RaiseStep
            => /\ Count(stream_run'.adviser, COMPOSING_MESSAGE_RETRY)
                    = Count(stream_run.adviser, COMPOSING_MESSAGE_RETRY)
               /\ stream_run'.waits = stream_run.waits
               /\ stream_run'.opened = stream_run.opened
       /\ Count(stream_run'.adviser, COMPOSING_MESSAGE_RETRY) = stream_run'.attempt
       /\ Len(stream_run'.waits) = stream_run'.attempt
       /\ stream_run'.opened = stream_run'.attempt + 1
       /\ stream_run'.attempt <= MaxAttempts - 1]_vars

\* Two attempts failed and the third succeeded: two notices, two waits, three
\* streams opened.
C18_Witness ==
    /\ stream_run.pc = "done"
    /\ stream_run.attempt = 2
    /\ Count(stream_run.adviser, COMPOSING_MESSAGE_RETRY) = 2
    /\ stream_run.waits = <<0, 1>>
    /\ stream_run.opened = 3

\* C19: a failure of attempt 1, 2 or 3 is shown to both parties as retrying:
\* the adviser's message gets the retrying notice and the supervisor space
\* gets an update as well, and no failure notice is shown on either side
\* before the fourth attempt has failed.
C19_RetryShownToBoth ==
    [][/\ (RaiseStep /\ stream_run.attempt < MaxAttempts - 1)
            => /\ Last(stream_run'.adviser) = COMPOSING_MESSAGE_RETRY
               /\ Len(stream_run'.supervisor) > Len(stream_run.supervisor)
       /\ stream_run'.raised # "Caddy failed to response"
            => /\ Count(stream_run'.adviser, REQUEST_FAILURE) = 0
               /\ Count(stream_run'.supervisor,
                        SupCall("update_request", Note("request_failed"))) = 0]_vars

\* C20: every attempt starts with an empty accumulated response, an empty
\* flush buffer and the first-fragment flag set, so that the aggregation
\* state of an attempt, and the answer finalized from it, are those its own
\* fragments give: nothing of a failed earlier attempt is left in them.
C20_FreshAttempt ==
    /\ (stream_run.pc = "streaming" /\ stream_run.fragments = <<>>)
          => /\ stream_run.first_chunk = TRUE
             /\ stream_run.caddy_response = NoItem
             /\ stream_run.accumulated_answer = <<>>
    /\ stream_run.pc \in {"streaming", "exit"}
          => LET alone == Replay(stream_run.fragments)
             IN  /\ stream_run.first_chunk = alone.first_chunk
                 /\ stream_run.caddy_response = alone.caddy_response
                 /\ stream_run.accumulated_answer = alone.accumulated_answer
    /\ stream_run.pc = "done"
          => /\ StoredResponse.llmAnswer =
                    FinalScan(HeldAnswer(Replay(stream_run.fragments)))
             /\ Len(StoredResponse.llmAnswer) <= Len(AnswerOf(stream_run.fragments))

\* The second attempt succeeded after a first one that had streamed answer
\* text to the supervisor before it raised.
C20_Witness ==
    /\ stream_run.pc = "done"
    /\ stream_run.attempt = 1
    /\ Count([i \in 1..Len(stream_run.supervisor) |-> stream_run.supervisor[i].call],
             "respond_to_supervisor_thread") = 2
    /\ Len(StoredResponse.llmAnswer) > 0

\* ------------------------------------------------ supervision workflow
\* C21: when the supervisor-space lookup returns "Unknown", send_to_llm
\* raises before any attempt is opened and before anything is sent to a
\* supervisor space; there is no retry notice and no wait, and no response
\* item is written.
C21_UnknownSpaceIsFatal ==
    [][(AdmitStep /\ last'.lookup = "Unknown")
          => (/\ last'.raised = "supervision space returned unknown"
              /\ last'.attempts = 0
              /\ last'.waits = <<>>
              /\ last'.supervisor = <<>>
              /\ last'.adviser = <<PROCESSING_MESSAGE, COMPOSING_MESSAGE>>
              /\ supervisor_space'[last'.message] = NoSpace
              /\ responses_table' = responses_table)]_vars

\* A message got to answer generation and the lookup returned "Unknown".
C21_Witness ==
    /\ last.op = "handle_message"
    /\ last.lookup = "Unknown"
    /\ adviser_space[last.message] = COMPOSING_MESSAGE
    /\ Present(message_table[last.message])

\* A step in which a supervisor's approve or reject action is handled.
DecisionStep ==
    last'.op \in {"handle_supervisor_approval", "handle_supervisor_rejection"}

\* C22: a successful generation stores the response item with prompt and
\* answer text, sets the adviser's message to the awaiting-approval notice
\* and leaves the supervision card with its approve / reject buttons in the
\* supervisor space; as the item is stored before the buttons exist, every
\* decision that is handled finds the response item of the answer it is about.
C22_GeneratedToAwaiting ==
    [][/\ (AdmitStep /\ last'.attempts > 0 /\ last'.raised = "none")
            => LET record == responses_table'[last'.thread]
                   sent == supervisor_space'[last'.message].sent
               IN  /\ Present(record)
                   /\ record.messageId = last'.message
                   /\ record.llmPrompt = last'.message
                   /\ record.llmAnswer = AnswerText(last'.message, 0, TRUE)
                   /\ adviser_space'[last'.message] = AWAITING_SUPERVISOR_APPROVAL
                   /\ HasButtons(sent)
                   /\ ButtonParams(sent).responseId = record.responseId
                   /\ ButtonParams(sent).aiResponse = create_card(record.llmAnswer, FALSE)
       /\ DecisionStep
            => /\ Present(responses_table[last'.thread])
               /\ responses_table[last'.thread].messageId = last'.message]_vars

\* The supervision card a decision on message m was clicked on.
ClickedCard(m) == supervisor_space[m].sent

\* The last section of a card.
Marker(card) == card.sections[Len(card.sections)]

\* C23: an approve action by approver A puts the answer card with the
\* approved marker naming A on the adviser's message in place of the
\* placeholder, records approverEmail = A, approved = true and the two
\* timestamps on the response item of that answer, turns the supervisor's
\* request and response messages to approved, and posts the call-complete
\* card on the thread.
C23_Approved ==
    [][last'.op = "handle_supervisor_approval"
          => LET m == last'.message
                 answer_card == ButtonParams(ClickedCard(m)).aiResponse
                 record == responses_table'[last'.thread]
             IN  \E A \in Approvers :
                    /\ adviser_space[m] \in Placeholders
                    /\ adviser_space'[m] =
                          [answer_card EXCEPT !.sections =
                              Append(@, [type |-> "approved", approver |-> A])]
                    /\ record.messageId = m
                    /\ record.llmAnswer = answer_card.sections[1].text
                    /\ record.approverEmail = A
                    /\ record.approved = TRUE
                    /\ record.approvalTimestamp = "set"
                    /\ record.userResponseTimestamp = "set"
                    /\ supervisor_space'[m].request = Note("request_approved")
                    /\ Marker(Last(supervisor_space'[m].responses))
                          = [type |-> "approved", approver |-> A]
                    /\ [thread |-> last'.thread, message |-> m] \in thread_cards'
                    /\ last'.posts = <<"callCompleteCard">>]_vars

\* C24: a reject action by approver A with feedback F puts the rejection
\* notice naming A and F on the adviser's message in place of the
\* placeholder, records approverEmail = A, approved = false, the two
\* timestamps and supervisorMessage = F on the response item of that answer,
\* turns the supervisor's request and response messages to rejected, and
\* posts the call-complete card; in every response item approved = false
\* goes with a supervisorMessage and approved = true with none.
C24_Rejected ==
    [][/\ last'.op = "handle_supervisor_rejection"
            => LET m == last'.message
                   answer_card == ButtonParams(ClickedCard(m)).aiResponse
                   record == responses_table'[last'.thread]
               IN  \E A \in Approvers, F \in Feedback :
                      /\ adviser_space[m] \in Placeholders
                      /\ adviser_space'[m] = supervisor_rejection(A, F)
                      /\ ~ShowsAnswer(adviser_space'[m])
                      /\ record.messageId = m
                      /\ record.llmAnswer = answer_card.sections[1].text
                      /\ record.approverEmail = A
                      /\ record.approved = FALSE
                      /\ record.approvalTimestamp = "set"
                      /\ record.userResponseTimestamp = "set"
                      /\ record.supervisorMessage = F
                      /\ supervisor_space'[m].request = Note("request_rejected")
                      /\ Marker(Last(supervisor_space'[m].responses))
                            = [type |-> "rejected", approver |-> A,
                               supervisor_message |-> F]
                      /\ [thread |-> last'.thread, message |-> m] \in thread_cards'
                      /\ last'.posts = <<"callCompleteCard">>
       /\ \A t \in Threads :
             Has(responses_table'[t], "approved")
                => (responses_table'[t].approved = FALSE
                       <=> responses_table'[t].supervisorMessage \in Feedback)]_vars

\* The decision fields of a response item.
DecisionFields == {"approved", "approverEmail", "supervisorMessage"}

\* C25: once a decision is recorded for an answer, a further approve or
\* reject action for that answer changes neither the recorded approved,
\* approverEmail and supervisorMessage nor what the adviser's message shows.
C25_ApprovalExclusive ==
    [][(/\ DecisionStep
        /\ Has(responses_table[last'.thread], "approved")
        /\ responses_table[last'.thread].messageId = last'.message)
          => /\ \A f \in DecisionFields :
                    responses_table'[last'.thread][f] = responses_table[last'.thread][f]
             /\ adviser_space'[last'.message] = adviser_space[last'.message]]_vars

\* C26: a response item is created only by answering a message, and once
\* the approval outcome is recorded on it no operation changes any of its
\* fields, answering a later message on the same thread included.
C26_ResponseAppendOnly ==
    [][\A t \in Threads :
          /\ (~Present(responses_table[t]) /\ Present(responses_table'[t]))
                => (AdmitStep /\ last'.thread = t /\ last'.attempts > 0)
          /\ Has(responses_table[t], "approved")
                => responses_table'[t] = responses_table[t]]_vars

\* ------------------------------------------------ claims: call lifecycle
\* C27: marking a call complete on a thread sets callComplete = true on
\* that thread's evaluation item and activeCall = false on the user's
\* item whether or not a survey is required, and the survey is presented
\* (the call-complete card replaced, the survey card posted on the thread
\* with every question) exactly when check_if_survey_required answers true.
C27_CallComplete ==
    [][last'.op = "finalise_caddy_call"
          => /\ evaluation_table'[last'.thread].callComplete = TRUE
             /\ users_table'[last'.user].activeCall = FALSE
             /\ last'.survey_required
                   <=> /\ Len(survey_cards') = Len(survey_cards) + 1
                       /\ survey_cards'[Len(survey_cards')] =
                             [thread |-> last'.thread, sections |-> Questions,
                              complete |-> FALSE]
                       /\ last'.posts = <<"CALL_COMPLETE", "postCallSurvey">>
             /\ ~last'.survey_required
                   <=> (survey_cards' = survey_cards /\ last'.posts = <<>>)]_vars

\* A call marked complete with no survey required.
C27_Witness ==
    /\ last.op = "finalise_caddy_call"
    /\ ~last.survey_required
    /\ evaluation_table[last.thread].callComplete = TRUE
    /\ users_table[last.user].activeCall = FALSE
    /\ survey_cards = <<>>

\* The survey responses stored for a thread.
SurveyResponses(evaluation, t) ==
    IF Has(evaluation[t], "surveyResponse") THEN evaluation[t].surveyResponse
    ELSE <<>>

\* The questions of a survey card without question q, in the card's order.
Without(sections, q) == SelectSeq(sections, LAMBDA x : x # q)

\* C28: each survey answer appends one {question, response} entry at the
\* end of the thread's survey responses and changes nothing else of the
\* record, and removes that question, and only it, from the questions the
\* card still shows; a survey card shows the 'survey complete' marker
\* exactly when no question is left on it, so the step that shows the
\* marker is the answer to the last question left.
C28_SurveyResponses ==
    /\ [][last'.op = "handle_survey_response"
            => \E c \in 1..Len(survey_cards), q \in {PostCallSurvey[i] : i \in 1..Len(PostCallSurvey)},
                  r \in PostCallValues :
                  LET t == survey_cards[c].thread
                      shown == survey_cards[c].sections
                  IN  /\ t = last'.thread
                      /\ \E i \in 1..Len(shown) : shown[i] = q
                      /\ SurveyResponses(evaluation_table', t) =
                            Append(SurveyResponses(evaluation_table, t),
                                   [question |-> q, response |-> r])
                      /\ \A f \in DOMAIN evaluation_table[t] \ {"surveyResponse"} :
                            evaluation_table'[t][f] = evaluation_table[t][f]
                      /\ \A u \in Threads \ {t} :
                            evaluation_table'[u] = evaluation_table[u]
                      /\ survey_cards'[c].sections = Without(shown, q)
                      /\ Len(survey_cards'[c].sections) = Len(shown) - 1
                      /\ survey_cards'[c].complete <=> shown = <<q>>
                      /\ \A d \in 1..Len(survey_cards) \ {c} :
                            survey_cards'[d] = survey_cards[d]]_vars
    /\ [](\A c \in 1..Len(survey_cards) :
            survey_cards[c].complete <=> survey_cards[c].sections = <<>>)

\* A three question survey answered q3, q1, q2: the responses are stored in
\* that order and the card shows the marker.
C28_Witness ==
    /\ last.op = "handle_survey_response"
    /\ survey_cards # <<>>
    /\ survey_cards[1].complete
    /\ Len(SurveyResponses(evaluation_table, last.thread)) = 3
    /\ SurveyResponses(evaluation_table, last.thread)[1].question = "q3"
    /\ SurveyResponses(evaluation_table, last.thread)[2].question = "q1"
    /\ SurveyResponses(evaluation_table, last.thread)[3].question = "q2"

\* The thread's evaluation item is the record of a call still in progress.
CallOpen(item) == Has(item, "callStart") /\ item.callComplete = FALSE

\* C29: a thread's evaluation record comes into existence only by a message
\* that opens a call (the module policy is invoked); while the call is in
\* progress (callComplete = false) no step replaces or re-creates the
\* record; and callComplete becomes true only by the mark-call-complete
\* action.
C29_OneEvaluationRecord ==
    [][\A t \in Threads :
          /\ (~Present(evaluation_table[t]) /\ Present(evaluation_table'[t]))
                => /\ AdmitStep /\ last'.thread = t /\ last'.policy_invoked
                   /\ CallOpen(evaluation_table'[t])
          /\ CallOpen(evaluation_table[t])
                => /\ Has(evaluation_table'[t], "callStart")
                   /\ \A f \in ConfigAttrs \cup {"threadId", "callStart"} :
                         evaluation_table'[t][f] = evaluation_table[t][f]
          /\ (/\ Present(evaluation_table[t])
              /\ evaluation_table[t].callComplete = FALSE
              /\ evaluation_table'[t].callComplete = TRUE)
                => (last'.op = "finalise_caddy_call" /\ last'.thread = t)]_vars

\* An attribute of an item as a sequence: empty when the item lacks it.
Attr(item, name) == IF Has(item, name) THEN <<item[name]>> ELSE <<>>

\* The attributes store_approver_event sets.
ApprovalFields == {"approverEmail", "approved", "approvalTimestamp",
                   "userResponseTimestamp", "supervisorMessage"}

\* A step that opens a call or marks one complete.
LifecycleStep ==
    \/ AdmitStep /\ last'.policy_invoked
    \/ last'.op = "finalise_caddy_call"

\* C30: activeCall of a user's item and callComplete of a thread's
\* evaluation item change only in a step that opens a call or marks a call
\* complete: a message answered within an active call, an approval, a
\* rejection and a survey response leave both as they were.  An approval or
\* rejection changes nothing in the users, evaluation and message tables
\* and, in the responses table, only the approval fields of the clicked
\* card's thread: every other attribute (prompt and answer text included)
\* of every response item is as before.
C30_SingleWriter ==
    [][/\ ~LifecycleStep
            => /\ \A u \in Users : Attr(users_table'[u], "activeCall")
                                     = Attr(users_table[u], "activeCall")
               /\ \A t \in Threads : Attr(evaluation_table'[t], "callComplete")
                                       = Attr(evaluation_table[t], "callComplete")
       /\ DecisionStep
            => /\ UNCHANGED <<users_table, evaluation_table, message_table>>
               /\ \A t \in Threads \ {last'.thread} :
                     responses_table'[t] = responses_table[t]
               /\ Present(responses_table[last'.thread])
               /\ DOMAIN responses_table'[last'.thread]
                     = DOMAIN responses_table[last'.thread] \cup ApprovalFields
               /\ \A f \in DOMAIN responses_table[last'.thread] \ ApprovalFields :
                     Attr(responses_table'[last'.thread], f)
                       = Attr(responses_table[last'.thread], f)]_vars

\* A rejection recorded on an answer during an active call: the item holds
\* the decision next to its prompt and answer.
C30_Witness ==
    /\ last.op = "handle_supervisor_rejection"
    /\ responses_table[last.thread].approved = FALSE
    /\ {"llmPrompt", "llmAnswer"} \subseteq DOMAIN responses_table[last.thread]
    /\ users_table[last.user].activeCall = TRUE
    /\ evaluation_table[last.thread].callComplete = FALSE

\* ------------------------------------------ claims: the streamed answer, II
\* The 'answer started' calls among the supervisor calls of the current attempt.
StartedUpdates ==
    {i \in 1..Len(AttemptCalls) : AttemptCalls[i].call = "respond_to_supervisor_thread"}

\* The fragments of the current attempt that carry an answer field.
AnswerFragments ==
    {i \in 1..Len(stream_run.fragments) : "answer" \in DOMAIN stream_run.fragments[i]}

\* C31: in each attempt the 'answer started' update goes to the supervisor
\* exactly once, by the first fragment that carries an answer field (with
\* the answer that fragment brought), ahead of every size-triggered flush of
\* the attempt; a fragment without an answer field sends the supervisor
\* nothing.
C31_AnswerStarted ==
    /\ [](stream_run.pc \in {"streaming", "exit"}
            => /\ StartedUpdates = (IF AnswerFragments = {} THEN {} ELSE {1})
               /\ AnswerFragments = {} => AttemptCalls = <<>>)
    /\ [][ConsumeStep
            => LET chunk == Last(stream_run'.fragments)
               IN  /\ "answer" \notin DOMAIN chunk
                        => stream_run'.supervisor = stream_run.supervisor
                   /\ ("answer" \in DOMAIN chunk /\ AnswerFragments = {})
                        => stream_run'.supervisor[Len(stream_run.supervisor) + 1] =
                              SupCall("respond_to_supervisor_thread",
                                      create_card(chunk.answer.value, TRUE))
                   /\ ("answer" \in DOMAIN chunk /\ AnswerFragments # {})
                        => \A i \in (Len(stream_run.supervisor) + 1)
                                      ..Len(stream_run'.supervisor) :
                              stream_run'.supervisor[i].call = "update_response"]_vars

\* A second attempt whose first fragment had no answer field, whose second
\* started the answer and whose third brought a flush.
C31_Witness ==
    /\ stream_run.pc = "streaming"
    /\ stream_run.attempt = 1
    /\ Len(stream_run.fragments) = 3
    /\ AnswerFragments = {2, 3}
    /\ StartedUpdates = {1}
    /\ Cardinality(InterimUpdates) = 1

\* ----------------------------------- claims: answers and calls side by side
\* The answer to message m is with the supervisor, undecided: the message
\* last written to its supervision thread still carries the buttons.
AwaitingApproval(m) ==
    /\ supervisor_space[m].sent # NoContent
    /\ HasButtons(Last(supervisor_space[m].responses))

\* C32: when two answers on one thread are awaiting approval, a decision on
\* one of them is recorded on the record whose responseId is the decision's
\* responseId, and the other answer's record is there afterwards, undecided,
\* with the prompt and answer text it was stored with.
C32_DecisionOnOwnRecord ==
    [][\A m, other \in MsgIds :
          (/\ DecisionStep /\ last'.message = m /\ other # m
           /\ AwaitingApproval(m) /\ AwaitingApproval(other)
           /\ ButtonParams(supervisor_space[other].sent).threadId
                 = ButtonParams(supervisor_space[m].sent).threadId)
            => LET mine == ButtonParams(supervisor_space[m].sent)
                   theirs == ButtonParams(supervisor_space[other].sent)
               IN  /\ \E t \in Threads :
                         /\ Attr(responses_table'[t], "responseId") = <<mine.responseId>>
                         /\ Has(responses_table'[t], "approved")
                         /\ Attr(responses_table'[t], "llmPrompt") = <<m>>
                   /\ \E t \in Threads :
                         /\ Attr(responses_table'[t], "responseId") = <<theirs.responseId>>
                         /\ ~Has(responses_table'[t], "approved")
                         /\ Attr(responses_table'[t], "llmPrompt") = <<other>>]_vars

\* C33: when two messages of one user with no active call are admitted
\* side by side, once both admits have returned the module policy was
\* invoked for exactly one of them, exactly one evaluation record is open
\* (callComplete = false) and both messages got the same configuration.
C33_OneCallOpened ==
    (\A w \in Workers : admits[w].pc = "returned")
        => /\ Cardinality({w \in Workers : admits[w].policy_invoked}) = 1
           /\ Cardinality({t \in Threads : CallOpen(evaluation_table[t])}) = 1
           /\ \A v, w \in Workers :
                 \A f \in {"moduleOutputs", "continueConversation",
                           "controlGroupMessage"} :
                    admits[v].module_values[f] = admits[w].module_values[f]

\* ------------------------------------------ claims: the finalized answer
\* C34: the finalized answer, stored as llmAnswer and rendered in the card
\* sent for approval, contains neither "Adviser: " nor "Advisor: ",
\* whatever the fragments were.
C34_NoMarkerLeft ==
    stream_run.pc = "done"
        => /\ find(StoredResponse.llmAnswer, Adviser_marker) = -1
           /\ find(StoredResponse.llmAnswer, Advisor_marker) = -1
           /\ \A i \in 1..Len(stream_run.supervisor) :
                 LET content == stream_run.supervisor[i].content
                 IN  (Has(content, "sections") /\ HasButtons(content))
                        => FirstMarker(content.sections[1].text) = -1

\* C35: when the answer text of the successful attempt's fragments holds no
\* marker, the finalized answer is that text without the whitespace at its
\* two ends, whatever the split into fragments: every interior character
\* is kept.
C35_MarkerFreeAnswer ==
    (stream_run.pc = "done" /\ FirstMarker(AnswerOf(stream_run.fragments)) = -1)
        => StoredResponse.llmAnswer = strip(AnswerOf(stream_run.fragments))

\* C36: an attempt whose stream ended without raising (exhausted, or left
\* early) is followed by the finalized answer, stored, and the awaiting
\* approval notice on the adviser's message, or else by a notice of the
\* retry policy (retrying, or request failed); this holds as well for a
\* stream with no fragment or with no answer field in any fragment.
C36_CompletedStreamFinalised ==
    [][stream_run.pc = "exit"
          => \/ /\ stream_run'.pc = "done"
                /\ stream_run'.raised = "none"
                /\ Has(StoredResponse', "llmAnswer")
                /\ Last(stream_run'.adviser) = AWAITING_SUPERVISOR_APPROVAL
             \/ /\ Len(stream_run'.adviser) = Len(stream_run.adviser) + 1
                /\ Last(stream_run'.adviser)
                      \in {COMPOSING_MESSAGE_RETRY, REQUEST_FAILURE}]_vars

\* ------------------------------------------------ claims: the survey, II
\* C37: an evaluation item that holds a survey response has
\* callComplete = true; no item is both open and surveyed.
C37_SurveyedIsComplete ==
    \A t \in Threads :
        Has(evaluation_table[t], "surveyResponse")
            => Attr(evaluation_table[t], "callComplete") = <<TRUE>>

\* The questions recorded in a thread's survey responses.
Recorded(t) ==
    {SurveyResponses(evaluation_table, t)[i].question :
        i \in 1..Len(SurveyResponses(evaluation_table, t))}

\* C38: whatever the order in which the clicks on a survey card are
\* handled, each carrying the card as it was when clicked, once all of them
\* are handled every question is recorded at most once in the thread's
\* survey responses and the card shows exactly the questions of the survey
\* that have no recorded response.
C38_SurveyClicks ==
    (\A e \in 1..Len(survey_clicks) : survey_clicks[e].handled)
        => \A c \in 1..Len(survey_cards) :
              LET t == survey_cards[c].thread
                  responses == SurveyResponses(evaluation_table, t)
                  shown == {survey_cards[c].sections[i] :
                               i \in 1..Len(survey_cards[c].sections)}
              IN  /\ \A i, j \in 1..Len(responses) :
                        responses[i].question = responses[j].question => i = j
                  /\ shown = {PostCallSurvey[i] : i \in 1..Len(PostCallSurvey)}
                                \ Recorded(t)

\* ------------------------------------------------- claims: termination
\* C39: with finite streams the handling of a message ends: never more
\* than four attempts are opened and never more than three waits made (none
\* after the last attempt), and the run ends either with the answer stored
\* and the awaiting approval notice shown, or with the fatal error raised
\* by the fourth failed attempt.
C39_Terminates ==
    /\ [](/\ stream_run.opened <= MaxAttempts
          /\ Len(stream_run.waits) <= MaxAttempts - 1
          /\ Len(stream_run.waits) = stream_run.attempt
          /\ stream_run.pc = "done"
                => /\ Has(StoredResponse, "llmAnswer")
                   /\ Last(stream_run.adviser) = AWAITING_SUPERVISOR_APPROVAL
          /\ stream_run.pc = "raised"
                => /\ stream_run.raised = "Caddy failed to response"
                   /\ stream_run.opened = MaxAttempts
                   /\ Last(stream_run.adviser) = REQUEST_FAILURE)
    /\ <>(stream_run.pc \in {"done", "raised"})

====
